---- MODULE Spec2Model ----
(***************************************************************************)
(* lab_2/fine_tune_t5.ipynb: one top-to-bottom evaluation of the notebook. *)
(* The state is the kernel's variables, the local files the cells write,   *)
(* and the remote resources the cells create (S3 objects, the training     *)
(* job, SageMaker endpoints).  A cell that raises stops the evaluation.    *)
(* Names and paths are sequences of tokens; "/" is the separator token.    *)
(***************************************************************************)
EXTENDS Integers, Sequences, FiniteSets, TLC

VARIABLES
    pc,                  \* the cell evaluated next, or "done" / "failed"
    failedAt,            \* the cell whose exception stopped the evaluation
    calls,               \* external step -> number of times it was invoked
    stepFailed,          \* external steps whose call failed
    dataFiles,           \* data/dialogsum.*.jsonl were fetched
    testRows,            \* test_data.shape[0]
    job,                 \* status of the remote training job
    artifact,            \* member names of the S3 object estimator.model_data
    cwdTar,              \* the local file ./model.tar.gz
    srcTar,              \* the local file src/model.tar.gz
    inferenceDir,        \* files under src/inference/, relative to it
    model_id,            \* the kernel variable model_id
    properties,          \* option.model_id written to serving.properties
    s3Package,           \* the S3 object hf_s3_code_artifact points to
    hf_endpoint_name,    \* the kernel variable hf_endpoint_name
    hf_predictor,        \* endpoint name the predictor object is bound to
    endpoints,           \* endpoint names that exist in the account
    created,             \* endpoint name model.deploy created in this run
    deployedData,        \* the archive the created endpoint serves
    deleted,             \* endpoint names this run deleted
    random_dialogue_idx, \* the kernel variable random_dialogue_idx
    requests,            \* inference requests sent, in order
    ran                  \* the cells evaluated so far, in order

vars == <<pc, failedAt, calls, stepFailed, dataFiles, testRows, job, artifact,
          cwdTar, srcTar, inferenceDir, model_id, properties, s3Package,
          hf_endpoint_name, hf_predictor, endpoints, created, deployedData,
          deleted, random_dialogue_idx, requests, ran>>

-----------------------------------------------------------------------------
(* Bounds *)

MaxRows == 3
MaxMembers == 3

-----------------------------------------------------------------------------
(* Values *)

Unset == "unset"
\* model_id before the extract cell has assigned it (no path has this token)
NoPath == <<"?">>
NoFile == [origin |-> "none", members |-> <<>>]

ExternalSteps ==
    {"upload_data", "fit", "wait", "download_artifact", "upload_package",
     "deploy", "predict", "delete"}

\* File names a training job may leave in its artifact.
ArtifactNames ==
    { <<"config.json">>,
      <<"m", "/", "config.json">>,
      <<"m", "/", "adapter.bin">>,
      <<"m", "/", "ckpt", "/", "adapter.bin">> }

Range(s) == {s[i] : i \in 1..Len(s)}

\* Member lists of a tar archive: distinct names, in any order.
Artifacts ==
    UNION { {s \in [1..n -> ArtifactNames] :
                \A i, j \in 1..n : i # j => s[i] # s[j]} :
            n \in 1..MaxMembers }

\* Files of src/inference in the repository.
InferenceCode == { <<"model.py">>, <<"requirements.txt">> }

\* name_from_base appends a timestamp; some names may already be taken.
EndpointNames == {"t5-summarization-1", "t5-summarization-2"}

Init ==
    /\ pc = "setup"
    /\ failedAt = "none"
    /\ calls = [s \in ExternalSteps |-> 0]
    /\ stepFailed = {}
    /\ dataFiles = FALSE
    /\ testRows = 0
    /\ job = "NotStarted"
    /\ artifact = <<>>
    /\ cwdTar = NoFile
    /\ srcTar = NoFile
    /\ inferenceDir = InferenceCode
    /\ model_id = NoPath
    /\ properties = NoPath
    /\ s3Package = NoFile
    /\ hf_endpoint_name = Unset
    /\ hf_predictor = Unset
    /\ endpoints \in {{}, {"t5-summarization-1"}}
    /\ created = Unset
    /\ deployedData = NoFile
    /\ deleted = {}
    /\ random_dialogue_idx = -1
    /\ requests = <<>>
    /\ ran = <<>>

-----------------------------------------------------------------------------
(* Pure helpers *)

RECURSIVE SeqOf(_)
\* The members of a set in some order (tar's directory traversal order).
SeqOf(S) ==
    IF S = {} THEN <<>>
    ELSE LET x == CHOOSE y \in S : TRUE IN <<x>> \o SeqOf(S \ {x})

\* p.rfind("/") + 1
RFindSep(p) ==
    IF \E i \in 1..Len(p) : p[i] = "/"
    THEN CHOOSE i \in 1..Len(p) :
            p[i] = "/" /\ \A j \in (i + 1)..Len(p) : p[j] # "/"
    ELSE 0

RECURSIVE RStripSep(_)
\* head.rstrip("/")
RStripSep(p) ==
    IF p # <<>> /\ p[Len(p)] = "/" THEN RStripSep(SubSeq(p, 1, Len(p) - 1)) ELSE p

\* os.path.dirname
Dirname(p) ==
    LET head == SubSeq(p, 1, RFindSep(p))
    IN  IF head # <<>> /\ \E i \in 1..Len(head) : head[i] # "/"
        THEN RStripSep(head)
        ELSE head

\* The directories that exist once the files `files` have been written.
RECURSIVE Ancestors(_)
Ancestors(p) ==
    LET d == Dirname(p) IN IF d = <<>> THEN {} ELSE {d} \cup Ancestors(d)

Dirs(files) == UNION {Ancestors(f) : f \in files}

\* random.randint(a, b): an integer N with a <= N <= b
Randint(a, b) == a..b

\* test_data["dialogue"][i] on the default RangeIndex of an n-row table
HasRow(n, i) == 0 <= i /\ i < n

\* tar czvf model.tar.gz inference/ run in src/
TarCreate(dir, files) ==
    [origin |-> "package",
     members |-> SeqOf({<<dir, "/">> \o f : f \in files})]

MvKeepsOld(built, old) == [cwd |-> old, src |-> built]

\* mv model.tar.gz ../ : the new archive replaces ./model.tar.gz
Mv(built, old) == [cwd |-> built, src |-> NoFile]

FitWaitTrue == TRUE

\* estimator.fit(..., wait=False)
FitWait == FALSE

\* The job's status when fit returns or raises.
SubmitStatus(wait) == IF wait THEN {"Completed", "Failed"} ELSE {"InProgress"}

WaitReturnsAtOnce(status) == TRUE

\* latest_training_job.wait blocks until the job is in a final status.
WaitReturns(status) == status \in {"Completed", "Failed"}

PredictorOfBaseName(endpoint_name) == "t5-summarization-1"

\* sagemaker.Predictor(endpoint_name=endpoint_name, ...)
PredictorEndpointName(endpoint_name) == endpoint_name

TwoInputs(dialogue) == <<dialogue, dialogue>>

\* {"inputs": [random_dialogue], ...}
PredictInputs(dialogue) == <<dialogue>>

KeepEndpoint(eps, name) == eps

\* hf_predictor.delete_endpoint()
DeleteEndpoint(eps, name) == eps \ {name}

-----------------------------------------------------------------------------
(* Cell evaluation *)

kernel == <<dataFiles, testRows, model_id, properties, hf_endpoint_name,
            hf_predictor, random_dialogue_idx>>
files == <<cwdTar, srcTar, inferenceDir>>
cloud == <<job, artifact, s3Package, endpoints, created, deployedData, deleted,
           requests>>

\* The cell `cell` is evaluated and completes; `next` is the cell below it.
Completes(cell, next) ==
    /\ pc' = next
    /\ ran' = Append(ran, cell)
    /\ failedAt' = failedAt

\* The cell `cell` is evaluated and raises: the evaluation stops.
Raises(cell) ==
    /\ pc' = "failed"
    /\ ran' = Append(ran, cell)
    /\ failedAt' = cell

Invoke(step) == calls' = [calls EXCEPT ![step] = @ + 1]

\* Imports, execution role, session, bucket and clients.
Setup ==
    /\ pc = "setup"
    /\ \/ Completes("setup", "download_data")
       \/ Raises("setup")
    /\ UNCHANGED <<calls, stepFailed, kernel, files, cloud>>

\* !wget ... -O data/...: a shell escape does not raise when the command
\* fails, so the cell completes whether or not the files were fetched.
DownloadData ==
    /\ pc = "download_data"
    /\ dataFiles' \in BOOLEAN
    /\ Completes("download_data", "load_data")
    /\ UNCHANGED <<calls, stepFailed, testRows, model_id, properties,
                   hf_endpoint_name, hf_predictor, random_dialogue_idx,
                   files, cloud>>

\* pd.read_json of both files, then the cells that show the first rows.
LoadData ==
    /\ pc = "load_data"
    /\ IF dataFiles
       THEN /\ testRows' \in 1..MaxRows
            /\ Completes("load_data", "upload_data")
       ELSE /\ testRows' = testRows
            /\ Raises("load_data")
    /\ UNCHANGED <<calls, stepFailed, dataFiles, model_id, properties,
                   hf_endpoint_name, hf_predictor, random_dialogue_idx,
                   files, cloud>>

\* s3_data_path = sess.upload_data(...)
UploadData ==
    /\ pc = "upload_data"
    /\ Invoke("upload_data")
    /\ \/ /\ Completes("upload_data", "estimator")
          /\ stepFailed' = stepFailed
       \/ /\ Raises("upload_data")
          /\ stepFailed' = stepFailed \cup {"upload_data"}
    /\ UNCHANGED <<kernel, files, cloud>>

\* tensorboard_output_config and the PyTorch estimator: local objects.
ConfigureEstimator ==
    /\ pc = "estimator"
    /\ Completes("estimator", "fit")
    /\ UNCHANGED <<calls, stepFailed, kernel, files, cloud>>

\* estimator.fit({"train": s3_data_path}, wait=False)
Fit ==
    /\ pc = "fit"
    /\ Invoke("fit")
    /\ \/ \E st \in SubmitStatus(FitWait) :
            /\ job' = st
            /\ artifact' \in (IF st = "Completed" THEN Artifacts ELSE {artifact})
            /\ IF st = "Failed"
               THEN Raises("fit") /\ stepFailed' = stepFailed \cup {"fit"}
               ELSE Completes("fit", "monitor") /\ stepFailed' = stepFailed
       \/ /\ Raises("fit")
          /\ stepFailed' = stepFailed \cup {"fit"}
          /\ UNCHANGED <<job, artifact>>
    /\ UNCHANGED <<kernel, files, s3Package, endpoints, created, deployedData,
                   deleted, requests>>

\* The remote training job ends, leaving its artifact when it succeeds.
JobEnds ==
    /\ job = "InProgress"
    /\ \/ job' = "Completed" /\ artifact' \in Artifacts
       \/ job' = "Failed" /\ artifact' = artifact
    /\ UNCHANGED <<pc, failedAt, ran, calls, stepFailed, kernel, files,
                   s3Package, endpoints, created, deployedData, deleted,
                   requests>>

\* The optional cell that prints the TensorBoard command.
Monitor ==
    /\ pc = "monitor"
    /\ Completes("monitor", "wait")
    /\ UNCHANGED <<calls, stepFailed, kernel, files, cloud>>

\* estimator.latest_training_job.wait(logs="None"): returns when the job
\* has completed, raises when it has failed or the polling fails.
Wait ==
    /\ pc = "wait"
    /\ Invoke("wait")
    /\ \/ /\ WaitReturns(job)
          /\ IF job = "Failed"
             THEN Raises("wait") /\ stepFailed' = stepFailed \cup {"wait"}
             ELSE Completes("wait", "image") /\ stepFailed' = stepFailed
       \/ /\ Raises("wait")
          /\ stepFailed' = stepFailed \cup {"wait"}
    /\ UNCHANGED <<kernel, files, cloud>>

\* Imports for deployment and the inference image URI.
Image ==
    /\ pc = "image"
    /\ Completes("image", "download_artifact")
    /\ UNCHANGED <<calls, stepFailed, kernel, files, cloud>>

\* !aws s3 cp {estimator.model_data} . : a shell escape, so the cell
\* completes whether or not the copy succeeded.
DownloadArtifact ==
    /\ pc = "download_artifact"
    /\ Invoke("download_artifact")
    /\ \/ /\ job = "Completed"
          /\ cwdTar' = [origin |-> "training", members |-> artifact]
          /\ stepFailed' = stepFailed
       \/ /\ cwdTar' = cwdTar
          /\ stepFailed' = stepFailed \cup {"download_artifact"}
    /\ Completes("download_artifact", "extract")
    /\ UNCHANGED <<kernel, srcTar, inferenceDir, cloud>>

\* tarfile.open("model.tar.gz"); getnames; dirname of the last name;
\* extractall("src/inference/")
Extract ==
    /\ pc = "extract"
    /\ IF cwdTar = NoFile \/ cwdTar.members = <<>>
       THEN /\ Raises("extract")
            /\ UNCHANGED <<model_id, inferenceDir>>
       ELSE LET contents == cwdTar.members
            IN  /\ model_id' = Dirname(contents[Len(contents)])
                /\ inferenceDir' = inferenceDir \cup Range(contents)
                /\ Completes("extract", "properties")
    /\ UNCHANGED <<calls, stepFailed, dataFiles, testRows, properties,
                   hf_endpoint_name, hf_predictor, random_dialogue_idx,
                   cwdTar, srcTar, cloud>>

\* open("src/inference/serving.properties", "w"), option.model_id={model_id}
WriteProperties ==
    /\ pc = "properties"
    /\ properties' = model_id
    /\ inferenceDir' = inferenceDir \cup { <<"serving.properties">> }
    /\ Completes("properties", "package")
    /\ UNCHANGED <<calls, stepFailed, dataFiles, testRows, model_id,
                   hf_endpoint_name, hf_predictor, random_dialogue_idx,
                   cwdTar, srcTar, cloud>>

\* %%bash: cd src/; tar czvf model.tar.gz inference/; mv model.tar.gz ../
Package ==
    /\ pc = "package"
    /\ LET moved == Mv(TarCreate("inference", inferenceDir), cwdTar)
       IN  /\ cwdTar' = moved.cwd
           /\ srcTar' = moved.src
    /\ Completes("package", "upload_package")
    /\ UNCHANGED <<calls, stepFailed, kernel, inferenceDir, cloud>>

\* hf_s3_code_artifact = sess.upload_data("model.tar.gz", ...)
UploadPackage ==
    /\ pc = "upload_package"
    /\ Invoke("upload_package")
    /\ \/ /\ s3Package' = cwdTar
          /\ Completes("upload_package", "name_endpoint")
          /\ stepFailed' = stepFailed
       \/ /\ s3Package' = s3Package
          /\ Raises("upload_package")
          /\ stepFailed' = stepFailed \cup {"upload_package"}
    /\ UNCHANGED <<kernel, files, job, artifact, endpoints, created,
                   deployedData, deleted, requests>>

\* def deploy_model, then hf_endpoint_name = name_from_base(...)
NameEndpoint ==
    /\ pc = "name_endpoint"
    /\ hf_endpoint_name' \in EndpointNames
    /\ Completes("name_endpoint", "deploy")
    /\ UNCHANGED <<calls, stepFailed, dataFiles, testRows, model_id,
                   properties, hf_predictor, random_dialogue_idx, files,
                   cloud>>

\* hf_predictor = deploy_model(..., endpoint_name=hf_endpoint_name, ...):
\* model.deploy creates the endpoint and waits for it; the predictor is
\* built only when model.deploy has returned.
Deploy ==
    /\ pc = "deploy"
    /\ Invoke("deploy")
    /\ \/ /\ hf_endpoint_name \notin endpoints
          /\ endpoints' = endpoints \cup {hf_endpoint_name}
          /\ created' = hf_endpoint_name
          /\ deployedData' = s3Package
          /\ \/ /\ hf_predictor' = PredictorEndpointName(hf_endpoint_name)
                /\ Completes("deploy", "sample")
                /\ stepFailed' = stepFailed
             \/ /\ hf_predictor' = hf_predictor
                /\ Raises("deploy")
                /\ stepFailed' = stepFailed \cup {"deploy"}
       \/ /\ Raises("deploy")
          /\ stepFailed' = stepFailed \cup {"deploy"}
          /\ UNCHANGED <<endpoints, created, deployedData, hf_predictor>>
    /\ UNCHANGED <<dataFiles, testRows, model_id, properties,
                   hf_endpoint_name, random_dialogue_idx, files, job,
                   artifact, s3Package, deleted, requests>>

\* random_dialogue_idx = randint(0, test_data.shape[0]); the row lookup;
\* hf_predictor.predict({"inputs": [random_dialogue], ...})
Sample ==
    /\ pc = "sample"
    /\ \E idx \in Randint(0, testRows) :
        /\ random_dialogue_idx' = idx
        /\ IF ~HasRow(testRows, idx)
           THEN /\ Raises("sample")
                /\ UNCHANGED <<calls, stepFailed, requests>>
           ELSE /\ Invoke("predict")
                /\ requests' = Append(requests,
                        [endpoint |-> hf_predictor,
                         inputs |-> PredictInputs(idx),
                         live |-> hf_predictor \in endpoints])
                /\ \/ /\ hf_predictor \in endpoints
                      /\ Completes("sample", "delete")
                      /\ stepFailed' = stepFailed
                   \/ /\ Raises("sample")
                      /\ stepFailed' = stepFailed \cup {"predict"}
    /\ UNCHANGED <<dataFiles, testRows, model_id, properties,
                   hf_endpoint_name, hf_predictor, files, job, artifact,
                   s3Package, endpoints, created, deployedData, deleted>>

\* hf_predictor.delete_endpoint()
Delete ==
    /\ pc = "delete"
    /\ Invoke("delete")
    /\ \/ /\ hf_predictor \in endpoints
          /\ endpoints' = DeleteEndpoint(endpoints, hf_predictor)
          /\ deleted' = deleted \cup {hf_predictor}
          /\ Completes("delete", "done")
          /\ stepFailed' = stepFailed
       \/ /\ Raises("delete")
          /\ stepFailed' = stepFailed \cup {"delete"}
          /\ UNCHANGED <<endpoints, deleted>>
    /\ UNCHANGED <<kernel, files, job, artifact, s3Package, created,
                   deployedData, requests>>

Next ==
    \/ Setup
    \/ DownloadData
    \/ LoadData
    \/ UploadData
    \/ ConfigureEstimator
    \/ Fit
    \/ JobEnds
    \/ Monitor
    \/ Wait
    \/ Image
    \/ DownloadArtifact
    \/ Extract
    \/ WriteProperties
    \/ Package
    \/ UploadPackage
    \/ NameEndpoint
    \/ Deploy
    \/ Sample
    \/ Delete

Spec == Init /\ [][Next]_vars

-----------------------------------------------------------------------------
(* Claims *)

\* The cell in which an external step is invoked.
CellOf(step) == IF step = "predict" THEN "sample" ELSE step

\* Cells that read the trained artifact or something built from it.
ConsumerCells ==
    {"download_artifact", "extract", "properties", "package",
     "upload_package", "deploy"}

PackagedName(f) == <<"inference", "/">> \o f

\* C1: no step that consumes the trained artifact (download, extract,
\* serving.properties, package, upload, deploy) is evaluated before the wait
\* cell has returned with the training job completed.
C1_ConsumersAfterWait ==
    \A i \in 1..Len(ran) :
        ran[i] \in ConsumerCells =>
            /\ \E j \in 1..(i - 1) : ran[j] = "wait"
            /\ calls["wait"] = 1
            /\ job = "Completed"

C1_Witness == ran # <<>> /\ ran[Len(ran)] = "deploy" /\ job = "Completed"

\* C2 (as amended): a run that ends normally has deleted the endpoint it
\* created; a run that ends by a failure of the sample request cell or of
\* the delete cell ends with that endpoint still deployed.
C2_TornDownWhenDone ==
    /\ pc = "done" =>
          created # Unset /\ created \notin endpoints /\ created \in deleted
    /\ pc = "failed" /\ failedAt \in {"sample", "delete"} =>
          created # Unset /\ created \in endpoints /\ deleted = {}

C2_Witness == pc = "done" /\ created \in deleted /\ endpoints = {}

\* C2 (as stated): once the endpoint exists, the run does not end, normally
\* or by a failure of the sample request step, with the endpoint deployed.
C2_TornDownAlways ==
    (created # Unset /\ (pc = "done" \/ (pc = "failed" /\ failedAt = "sample")))
        => created \notin endpoints

\* C3: every value of random_dialogue_idx addresses an existing row of the
\* test table: 0 <= random_dialogue_idx < N.
C3_IndexInRange ==
    random_dialogue_idx # -1 =>
        0 <= random_dialogue_idx /\ random_dialogue_idx < testRows

\* C4: the uploaded archive has model.py, requirements.txt and
\* serving.properties at its top level and the model files in the top-level
\* directory <model_id>.
C4_ArchiveLayout ==
    s3Package # NoFile =>
        /\ \A f \in InferenceCode \cup { <<"serving.properties">> } :
              f \in Range(s3Package.members)
        /\ \A f \in Range(artifact) :
              f \in Range(s3Package.members) /\ Dirname(f) = properties

\* C5: each external step is invoked at most once, and once an external
\* step has failed no later cell is evaluated.
C5_FailureStopsRun ==
    /\ \A s \in ExternalSteps : calls[s] <= 1
    /\ \A s \in stepFailed :
          /\ pc = "failed"
          /\ failedAt = CellOf(s)
          /\ ran[Len(ran)] = CellOf(s)

\* C6: fit returns with the job still running, the cell after it can be
\* evaluated whatever the job's status, and the wait cell completes only
\* when the job has completed.
C6_SubmitDoesNotBlock ==
    /\ [](pc = "monitor" => ENABLED Monitor)
    /\ [][ /\ (pc = "fit" /\ pc' = "monitor" => job' = "InProgress")
           /\ (pc = "wait" /\ pc' = "image" => job = "Completed") ]_vars

C6_Witness == pc = "wait" /\ job = "InProgress" /\ calls["fit"] = 1

\* C7: at most one inference request is sent, a run that ends normally has
\* sent exactly one, it carries exactly one input, and it is sent to an
\* endpoint that exists then: after the deploy cell and before any delete.
C7_SingleRequest ==
    /\ Len(requests) <= 1
    /\ Len(requests) = calls["predict"]
    /\ pc \in {"delete", "done"} => Len(requests) = 1
    /\ \A i \in 1..Len(requests) :
          /\ Len(requests[i].inputs) = 1
          /\ HasRow(testRows, requests[i].inputs[1])
          /\ requests[i].live
          /\ calls["deploy"] = 1
          /\ \E j \in 1..Len(ran) :
                /\ ran[j] = "sample"
                /\ \E k \in 1..(j - 1) : ran[k] = "deploy"
                /\ \A k \in 1..(j - 1) : ran[k] # "delete"

C7_Witness == pc = "delete" /\ Len(requests) = 1 /\ requests[1].live

\* C8: option.model_id in serving.properties is never empty and names a
\* directory under src/inference that holds all the artifact's files.
C8_ModelIdIsModelFolder ==
    properties # NoPath =>
        /\ properties # <<>>
        /\ properties \in Dirs(inferenceDir)
        /\ \A f \in Range(artifact) : Dirname(f) = properties

\* C9: whatever is uploaded as the endpoint's model data is the repackaged
\* archive, built after extraction and after serving.properties was
\* written; it holds serving.properties and the inference code and is never
\* the raw training artifact.
C9_UploadIsPackage ==
    calls["upload_package"] > 0 =>
        /\ cwdTar.origin = "package"
        /\ srcTar = NoFile
        /\ properties # NoPath
        /\ PackagedName(<<"serving.properties">>) \in Range(cwdTar.members)
        /\ \A f \in InferenceCode : PackagedName(f) \in Range(cwdTar.members)
        /\ \A f \in Range(artifact) : PackagedName(f) \in Range(cwdTar.members)
        /\ cwdTar.members # artifact
        /\ s3Package \in {NoFile, cwdTar}
        /\ deployedData \in {NoFile, cwdTar}

C9_Witness == s3Package.origin = "package" /\ deployedData = s3Package

\* C10: the predictor is bound to the name deploy_model passed to
\* model.deploy, so the request and the delete act on the endpoint this
\* run created and on no other.
C10_PredictorIsCreatedEndpoint ==
    /\ hf_predictor # Unset =>
          hf_predictor = hf_endpoint_name /\ hf_predictor = created
    /\ \A i \in 1..Len(requests) : requests[i].endpoint = created
    /\ \A e \in deleted : e = created

C10_Witness ==
    /\ deleted = {hf_endpoint_name}
    /\ Len(requests) = 1
    /\ requests[1].endpoint = hf_endpoint_name

====
